---------------------------- MODULE Spec2Model ----------------------------
(***************************************************************************)
(* golangci-lint-runner: the patch-relative issue filter (linter.go) and   *)
(* the review decision of Runner.Run (the newest revision of the runner,  *)
(* the one whose calls match linter.go).                                   *)
(*                                                                         *)
(* Text is modelled as it is in the program: a line of the patch file is a *)
(* sequence of one-character strings, and the parser looks at it only      *)
(* through strings.HasPrefix, strings.Split, slicing and strconv.ParseUint.*)
(* Texts that are only built, compared and sent (a finding's text, a       *)
(* review body) are the sequence of the pieces they are concatenated from; *)
(* the empty sequence is the empty string, and an unset *string.           *)
(* The pull request's diff is kept beside it in structured form (which     *)
(* line is a file marker, a hunk header, a context, deleted or added       *)
(* line); the patch file is the rendering of that diff.                    *)
(*                                                                         *)
(* Run is followed stage by stage, from the work directory to the review,  *)
(* with the deadline of its context and the comments the pull request      *)
(* carries. The server (runner.go: Server) is its queue, the one consumer  *)
(* and the webhook requests; there a Run is one step that ends with nil,   *)
(* with an error or with a panic. The webhook handler is followed from    *)
(* the payload to the select that puts a runner into the queue.            *)
(*                                                                         *)
(* The analyzer configuration (Options.LinterConfig) is a struct with a    *)
(* string slice in it; copies of the struct share the slice's backing      *)
(* array, so the arrays are kept in a heap and a slice is a reference into *)
(* it with a length.                                                       *)
(***************************************************************************)
EXTENDS Integers, Sequences, FiniteSets, TLC

VARIABLES
    diff,       \* the pull request's diff, structured (what GitHub rendered)
    patch,      \* the lines of the patch file, as text
    issues,     \* the analyzer's findings (result.Issues)
    pc,         \* position of the operation under check
    parsed,     \* what linesChanged returned
    filtered,   \* what filterIssues returned (result.Issues after filtering)
    opts,       \* runner.Options, as the run reads them
    warnings,   \* result.Report.Warnings
    reviewRequest,  \* the github.PullRequestReviewRequest Run builds
    calls,      \* the collaborators Run has called so far, in order
    ret,        \* what Run returned, once it has
    workDir,    \* the work directory of the run: "none", "exists", "removed"
    ctx,        \* runner.Options.Context: "live" or "expired"
    prPages,    \* the comments the pull request carries, page by page
    previous,   \* the run before this one on the same pull request, if any
    queue,      \* srv.queue: the runners in the channel's buffer
    closed,     \* whether srv.queue is closed
    started,    \* whether srv.queueStarter has run
    handlerCalls,   \* calls of srv.HttpHandler so far
    workers,    \* the goroutines running srv.workQueue
    req,        \* each webhook request's position in its handler
    responses,  \* what each webhook request was answered
    runs,       \* each request's runner: "none", "queued", "running", or how Run ended
    events,     \* the webhook event each request carries, once it is read
    srvOptions, \* srv.Options.Options: which of the fields NewRunner needs are set
    defaults,   \* srv.Options.Options.LinterConfig, the configuration of the server
    heap,       \* the backing arrays of the string slices of the configurations
    linterConfig,   \* runner.Options.LinterConfig of the run under way
    repoConfig, \* the config file of the repository the run cloned
    configRet,  \* what readRepoConfig returned
    configRuns  \* runs made so far from the server's options

vars == <<diff, patch, issues, pc, parsed, filtered,
          opts, warnings, reviewRequest, calls, ret,
          workDir, ctx, prPages, previous,
          queue, closed, started, handlerCalls, workers, req, responses, runs,
          events, srvOptions,
          defaults, heap, linterConfig, repoConfig, configRet, configRuns>>

cfgVars == <<defaults, heap, linterConfig, repoConfig, configRet, configRuns>>

srvVars == <<queue, closed, started, handlerCalls, workers, req, responses, runs,
            events, srvOptions>>

runVars == <<opts, warnings, reviewRequest, calls, ret,
             workDir, ctx, prPages, previous,
             queue, closed, started, handlerCalls, workers, req, responses, runs,
             events, srvOptions,
             defaults, heap, linterConfig, repoConfig, configRet, configRuns>>

-----------------------------------------------------------------------------
(* Bounds of the model.                                                    *)

\* longest diff, in lines, given to linesChanged
MaxLines == 5

\* longest list of findings given to filterIssues
MaxIssues == 2

\* ServerOptions.QueueSize, the capacity of srv.queue
QueueSize == 1

\* webhook requests sent to the server
MaxRequests == 3

\* calls of Server.HttpHandler
MaxHttpHandlers == 2

\* runs made one after the other from the options of one server
MaxRuns == 3

-----------------------------------------------------------------------------
(* Strings.                                                                *)

DigitChars == <<"0", "1", "2", "3", "4", "5", "6", "7", "8", "9">>

IsDigit(c) == \E i \in 1..10 : DigitChars[i] = c

DigitVal(c) == (CHOOSE i \in 1..10 : DigitChars[i] = c) - 1

\* strings.HasPrefix
HasPrefix(s, prefix) ==
    Len(s) >= Len(prefix) /\ SubSeq(s, 1, Len(prefix)) = prefix

\* s[n:], defined when n <= len(s); Go panics otherwise
SliceFrom(s, n) == SubSeq(s, n + 1, Len(s))

\* strings.Split(s, sep) for a one-character separator
RECURSIVE Split(_, _)
Split(s, sep) ==
    IF \A i \in 1..Len(s) : s[i] # sep
    THEN <<s>>
    ELSE LET i == CHOOSE k \in 1..Len(s) :
                      s[k] = sep /\ \A j \in 1..(k - 1) : s[j] # sep
         IN  <<SubSeq(s, 1, i - 1)>> \o Split(SubSeq(s, i + 1, Len(s)), sep)

RECURSIVE DigitsValue(_)
DigitsValue(s) ==
    IF s = <<>> THEN 0
    ELSE 10 * DigitsValue(SubSeq(s, 1, Len(s) - 1)) + DigitVal(s[Len(s)])

\* strconv.ParseUint(s, 10, 64): an error for the empty string and for any
\* character that is not a decimal digit (a sign included)
ParseUint(s) ==
    IF s = <<>> \/ \E i \in 1..Len(s) : ~IsDigit(s[i])
    THEN [ok |-> FALSE, val |-> 0]
    ELSE [ok |-> TRUE, val |-> DigitsValue(s)]

\* decimal rendering of a natural number
RECURSIVE Itoa(_)
Itoa(n) ==
    IF n < 10 THEN <<DigitChars[n + 1]>>
    ELSE Itoa(n \div 10) \o <<DigitChars[(n % 10) + 1]>>

-----------------------------------------------------------------------------
(* The diff and its rendering as a unified diff.                           *)

FileF == <<"f", ".", "g", "o">>
FileG == <<"g", ".", "g", "o">>

TextX == <<"x">>
\* a line of source text that itself starts with "++ "
TextPlus == <<"+", "+", " ", "x">>
TextPlusLong == <<"+", "+", " ", "x", "y", "z">>

\* one line of a unified diff: `+++ b/<path>`, `@@ -10,0 +<c>,5 @@`,
\* ` <text>`, `-<text>`, `+<text>`; a malformed hunk header has a text that is
\* not a number, or nothing, where the start <c> of the new range belongs
RenderLine(l) ==
    CASE l.kind = "file" -> <<"+", "+", "+", " ", "b", "/">> \o l.path
      [] l.kind = "hunk" -> <<"@", "@", " ", "-", "1", "0", ",", "0", " ", "+">>
                                \o Itoa(l.start) \o <<",", "5", " ", "@", "@">>
      [] l.kind = "badhunk" -> <<"@", "@", " ", "-", "1", "0", ",", "0", " ", "+">>
                                \o l.text \o <<",", "5", " ", "@", "@">>
      [] l.kind = "ctx"  -> <<" ">> \o l.text
      [] l.kind = "del"  -> <<"-">> \o l.text
      [] l.kind = "add"  -> <<"+">> \o l.text

Render(d) == [i \in 1..Len(d) |-> RenderLine(d[i])]

FileLine(p) == [kind |-> "file", path |-> p]
HunkLine(c) == [kind |-> "hunk", start |-> c]
TextLine(k, t) == [kind |-> k, text |-> t]
BadHunkLine(t) == [kind |-> "badhunk", text |-> t]

DiffLines ==
    {FileLine(FileF), FileLine(FileG), HunkLine(40),
     TextLine("ctx", TextX), TextLine("del", TextX),
     TextLine("add", TextX), TextLine("add", TextPlus),
     TextLine("add", TextPlusLong)}

\* the diffs given to filterIssues together with lists of findings
FilterLines ==
    {FileLine(FileF), HunkLine(40), TextLine("ctx", TextX), TextLine("add", TextX)}

RECURSIVE SeqsUpTo(_, _)
SeqsUpTo(S, n) ==
    IF n = 0 THEN {<<>>}
    ELSE LET shorter == SeqsUpTo(S, n - 1)
         IN  shorter \cup {Append(q, x) : q \in {r \in shorter : Len(r) = n - 1}, x \in S}

-----------------------------------------------------------------------------
(* linter.go: linesChanged                                                 *)

NoMap == [k \in {} |-> <<>>]

\* changes[key] = value
MapPut(m, key, value) ==
    [k \in (DOMAIN m) \cup {key} |-> IF k = key THEN value ELSE m[k]]

\* var s state: the zero value, with a nil slice of changes
ZeroState == [file |-> <<>>, lineNo |-> 0, hunkPos |-> 0,
              changes |-> <<>>, changesNil |-> TRUE]

StartParse == [s |-> ZeroState, changes |-> NoMap, panic |-> FALSE]

\* a new file section that goes on counting where the last one was
caseNewFileKeepsCount(st, s, line) ==
    LET recorded == IF ~s.changesNil
                    THEN MapPut(st.changes, s.file, s.changes)
                    ELSE st.changes
    IN  IF Len(line) < 6
        THEN [st EXCEPT !.panic = TRUE]
        ELSE [s |-> [file |-> SliceFrom(line, 6), lineNo |-> 0, hunkPos |-> s.hunkPos,
                     changes |-> <<>>, changesNil |-> FALSE],
              changes |-> recorded, panic |-> FALSE]

\* case strings.HasPrefix(line, "+++ ") && len(line) > 4
caseNewFile(st, s, line) ==
    LET recorded == IF ~s.changesNil
                    THEN MapPut(st.changes, s.file, s.changes)
                    ELSE st.changes
    IN  IF Len(line) < 6
        THEN [st EXCEPT !.panic = TRUE]      \* line[6:] out of range
        ELSE [s |-> [file |-> SliceFrom(line, 6), lineNo |-> 0, hunkPos |-> -1,
                     changes |-> <<>>, changesNil |-> FALSE],
              changes |-> recorded, panic |-> FALSE]

\* a hunk header that also restarts the position counter
caseHunkHeaderRestarts(st, s, line) ==
    LET cstart == ParseUint(SliceFrom(Split(Split(line, " ")[3], ",")[1], 1))
    IN  [st EXCEPT !.s = [s EXCEPT !.lineNo = cstart.val - 1, !.hunkPos = 0]]

\* case strings.HasPrefix(line, "@@ ")
caseHunkHeader(st, s, line) ==
    LET chdr == Split(line, " ")
    IN  IF Len(chdr) < 3
        THEN [st EXCEPT !.panic = TRUE]      \* chdr[2] out of range
        ELSE LET ahdr == Split(chdr[3], ",")
             IN  IF Len(ahdr[1]) < 1
                 THEN [st EXCEPT !.panic = TRUE]   \* ahdr[0][1:] out of range
                 ELSE LET cstart == ParseUint(SliceFrom(ahdr[1], 1))
                      IN  IF ~cstart.ok
                          THEN [st EXCEPT !.panic = TRUE]   \* panic(err)
                          ELSE [st EXCEPT !.s = [s EXCEPT !.lineNo = cstart.val - 1]]

\* case strings.HasPrefix(line, "-")
caseDeleted(st, s, line) ==
    [st EXCEPT !.s = [s EXCEPT !.lineNo = @ - 1]]

\* case strings.HasPrefix(line, "+")
caseAdded(st, s, line) ==
    [st EXCEPT !.s = [s EXCEPT
        !.changes = Append(@, [lineNo |-> s.lineNo, hunkPos |-> s.hunkPos]),
        !.changesNil = FALSE]]

\* one pass of the loop over the lines of the patch: both counters advance,
\* then the first case of the switch that matches is taken
parseLine(st, line) ==
    LET s == [st.s EXCEPT !.lineNo = @ + 1, !.hunkPos = @ + 1]
    IN  IF HasPrefix(line, <<"+", "+", "+", " ">>) /\ Len(line) > 4
          THEN caseNewFile(st, s, line)
        ELSE IF HasPrefix(line, <<"@", "@", " ">>)
          THEN caseHunkHeader(st, s, line)
        ELSE IF HasPrefix(line, <<"-">>)
          THEN caseDeleted(st, s, line)
        ELSE IF HasPrefix(line, <<"+">>)
          THEN caseAdded(st, s, line)
        ELSE [st EXCEPT !.s = s]

RECURSIVE parseLines(_, _)
parseLines(st, lines) ==
    IF lines = <<>> \/ st.panic THEN st
    ELSE parseLines(parseLine(st, Head(lines)), Tail(lines))

\* linesChanged(patch): the map of file names to added positions, or a panic.
\* Reading a file ends with io.EOF, which the function turns into no error.
linesChanged(lines) ==
    LET st == parseLines(StartParse, lines)
    IN  IF st.panic
        THEN [panic |-> TRUE, changes |-> NoMap]
        ELSE [panic |-> FALSE,
              changes |-> MapPut(st.changes, st.s.file, st.s.changes)]

-----------------------------------------------------------------------------
(* linter.go: filterIssues                                                 *)

\* a finding of the analyzer (result.Issue); HunkPos is 0 as the analyzer,
\* run without a patch, leaves it
Issue(linter, text, file, line) ==
    [FromLinter |-> linter, Text |-> text, FilePath |-> file, Line |-> line,
     HunkPos |-> 0]

\* the inner loop: every position is compared and each match appended
RECURSIVE scanPositionsNoBreak(_, _)
scanPositionsNoBreak(positions, i) ==
    IF positions = <<>> THEN <<>>
    ELSE (IF Head(positions).lineNo = i.Line
          THEN <<[i EXCEPT !.HunkPos = Head(positions).hunkPos]>>
          ELSE <<>>) \o scanPositionsNoBreak(Tail(positions), i)

\* the inner loop `for _, pos := range positions`: the first position whose
\* lineNo is the finding's line sets HunkPos, the finding is appended, break
RECURSIVE scanPositions(_, _)
scanPositions(positions, i) ==
    IF positions = <<>> THEN <<>>
    ELSE IF Head(positions).lineNo = i.Line
         THEN <<[i EXCEPT !.HunkPos = Head(positions).hunkPos]>>
         ELSE scanPositions(Tail(positions), i)

\* the outer loop `for _, i := range issues`
RECURSIVE filterLoop(_, _)
filterLoop(m, iss) ==
    IF iss = <<>> THEN <<>>
    ELSE LET i == Head(iss)
         IN  (IF i.FilePath \notin DOMAIN m
              THEN <<>>
              ELSE scanPositions(m[i.FilePath], i)) \o filterLoop(m, Tail(iss))

filterIssues(lines, iss) ==
    LET r == linesChanged(lines)
    IN  IF r.panic
        THEN [panic |-> TRUE, issues |-> <<>>]
        ELSE [panic |-> FALSE, issues |-> filterLoop(r.changes, iss)]

-----------------------------------------------------------------------------
(* Options.LinterConfig and Runner.readRepoConfig                          *)

\* a []string: the backing array it points to (0: nil) and its length; the
\* arrays of the model are as long as the slices made with them (cap = len)
NilSlice == [arr |-> 0, len |-> 0]

SliceValue(h, sl) == IF sl.arr = 0 THEN <<>> ELSE SubSeq(h[sl.arr], 1, sl.len)

\* the configuration the server starts with: config.Config{Run.Config,
\* LintersSettings.Unparam.Algo, Linters.Enable}
DefaultEnable == <<"Hello", "World">>
DefaultConfig == [Config |-> ".golangci.yml", Algo |-> "cha",
                  Enable |-> [arr |-> 1, len |-> Len(DefaultEnable)]]
DefaultHeap == <<DefaultEnable>>

\* a configuration with its slices read out of the heap
ConfigValue(h, c) ==
    [Config |-> c.Config, Algo |-> c.Algo, Enable |-> SliceValue(h, c.Enable)]

\* the config file of the cloned repository: none at the path, one that
\* cannot be opened, one that is not YAML, or the settings it gives (a setting
\* is a sequence: empty when the file does not mention it, else its value)
RepoFile(state, algo, enable) == [state |-> state, Algo |-> algo, Enable |-> enable]
NoRepoFile == RepoFile("absent", <<>>, <<>>)
RepoConfigs ==
    {NoRepoFile,
     RepoFile("unreadable", <<>>, <<>>),
     RepoFile("invalid", <<>>, <<>>),
     RepoFile("valid", <<>>, <<>>),
     RepoFile("valid", <<>>, <<<<"Bye">>>>),
     RepoFile("valid", <<"dfa">>, <<>>),
     RepoFile("valid", <<>>, <<<<"A", "B", "C">>>>)}

\* mapstructure decoding a list into a []string field (viper.Unmarshal into
\* the struct the runner holds): a nil slice gets a new array; a slice that
\* is there is written element by element into its own array, and grows into
\* a new array only when the list is longer than it
decodeSlice(h, sl, data) ==
    IF sl.arr = 0
    THEN [heap |-> Append(h, data), slice |-> [arr |-> Len(h) + 1, len |-> Len(data)]]
    ELSE LET n == IF Len(data) < sl.len THEN Len(data) ELSE sl.len
             h1 == [h EXCEPT ![sl.arr] =
                       [k \in 1..Len(@) |-> IF k <= n THEN data[k] ELSE @[k]]]
         IN  IF Len(data) <= sl.len
             THEN [heap |-> h1, slice |-> sl]
             ELSE [heap |-> Append(h1, data),
                   slice |-> [arr |-> Len(h1) + 1, len |-> Len(data)]]

\* v.Unmarshal(&r.Options.LinterConfig): the settings of the file are decoded
\* into the struct, the others are left as they are
unmarshal(h, c, file) ==
    LET algo == IF file.Algo = <<>> THEN c.Algo ELSE file.Algo[1]
        d == IF file.Enable = <<>> THEN [heap |-> h, slice |-> c.Enable]
             ELSE decodeSlice(h, c.Enable, file.Enable[1])
    IN  [heap |-> d.heap, config |-> [c EXCEPT !.Algo = algo, !.Enable = d.slice]]

\* a readRepoConfig for which a missing file is an error like any other
readRepoConfigStrict(h, c, file, readErr) ==
    IF file.state = "valid"
    THEN [ret |-> "nil"] @@ unmarshal(h, c, file)
    ELSE [ret |-> "error", heap |-> h, config |-> c]

\* Runner.readRepoConfig(repoDir). A file that is there and cannot be opened
\* gets past the os.IsNotExist test with a nil *os.File; what reading from it
\* gives is left open (readErr): an error, or nothing to decode
readRepoConfig(h, c, file, readErr) ==
    CASE file.state = "absent" -> [ret |-> "nil", heap |-> h, config |-> c]
      [] file.state = "unreadable" ->
            [ret |-> IF readErr THEN "error" ELSE "nil", heap |-> h, config |-> c]
      [] file.state = "invalid" -> [ret |-> "error", heap |-> h, config |-> c]
      [] file.state = "valid" -> [ret |-> "nil"] @@ unmarshal(h, c, file)

\* no server configuration under check
ConfigIdle ==
    /\ defaults = DefaultConfig
    /\ heap = DefaultHeap
    /\ linterConfig = DefaultConfig
    /\ repoConfig = NoRepoFile
    /\ configRet = "none"
    /\ configRuns = 0

-----------------------------------------------------------------------------
(* The operations applied to drawn inputs.                                 *)

NotRun == [panic |-> FALSE, changes |-> NoMap]
NotFiltered == [panic |-> FALSE, issues |-> <<>>]

Linters == {"unused", "govet"}

\* findings in a file of the diff, on added and on untouched lines, and in a
\* file the diff does not mention
Findings ==
    {Issue("unused", <<"unused var">>, FileF, 40),
     Issue("govet", <<"shadow">>, FileF, 40),
     Issue("unused", <<"unused var">>, FileF, 41),
     Issue("unused", <<"unused var">>, FileG, 40)}

NoOptions == [Approve |-> FALSE, RequestChanges |-> FALSE, DryRun |-> FALSE,
              NoChangesText |-> <<>>, PrintLinterName |-> FALSE]

EmptyRequest == [Body |-> <<>>, Event |-> "", Comments |-> <<>>]

Requests == 1..MaxRequests
Workers == 1..MaxHttpHandlers

NoWorker == [state |-> "none", runner |-> 0]

\* a webhook request as the handler sees it: whether the payload passes
\* github.ValidatePayload, the event type, the action of a pull_request event,
\* whether the pull request and the installation with its id are in it, and
\* whether GitHub issues an installation token
Event(valid, type, action, complete, token) ==
    [valid |-> valid, type |-> type, action |-> action,
     complete |-> complete, token |-> token]

NoEvent == Event(FALSE, "none", "", FALSE, FALSE)

Events ==
    {Event(FALSE, "pull_request", "opened", TRUE, TRUE),
     Event(TRUE, "ping", "", TRUE, TRUE),
     Event(TRUE, "installation", "created", TRUE, TRUE),
     Event(TRUE, "push", "", TRUE, TRUE),
     Event(TRUE, "pull_request", "closed", TRUE, TRUE),
     Event(TRUE, "pull_request", "opened", FALSE, TRUE),
     Event(TRUE, "pull_request", "opened", TRUE, FALSE),
     Event(TRUE, "pull_request", "opened", TRUE, TRUE),
     Event(TRUE, "pull_request", "reopened", TRUE, TRUE),
     Event(TRUE, "pull_request", "synchronize", TRUE, TRUE)}

\* the Options of the server, by the fields NewRunner asks for: as options()
\* of the command builds them, and as a caller that sets a Context builds them
mainOptions == [Client |-> FALSE, CloneToken |-> FALSE, Context |-> FALSE, Logger |-> TRUE]
callerOptions == [mainOptions EXCEPT !.Context = TRUE]

\* the server as NewServer returns it, with no request sent yet
ServerIdle ==
    /\ queue = <<>>
    /\ closed = FALSE
    /\ started = FALSE
    /\ handlerCalls = 0
    /\ workers = [w \in Workers |-> NoWorker]
    /\ req = [r \in Requests |-> "idle"]
    /\ responses = [r \in Requests |-> "none"]
    /\ runs = [r \in Requests |-> "none"]
    /\ events = [r \in Requests |-> NoEvent]
    /\ srvOptions = callerOptions

\* the variables of Run, in the specifications that apply one function
RunIdle ==
    /\ opts = NoOptions
    /\ warnings = <<>>
    /\ reviewRequest = EmptyRequest
    /\ calls = <<>>
    /\ ret = "none"
    /\ workDir = "none"
    /\ ctx = "live"
    /\ prPages = <<>>
    /\ previous = <<>>
    /\ ServerIdle
    /\ ConfigIdle

InitDiff ==
    /\ diff \in SeqsUpTo(DiffLines, MaxLines)
    /\ patch = Render(diff)
    /\ issues = <<>>
    /\ pc = "parse"
    /\ parsed = NotRun
    /\ filtered = NotFiltered
    /\ RunIdle

LinesChanged ==
    /\ pc = "parse"
    /\ parsed' = linesChanged(patch)
    /\ pc' = "parsed"
    /\ UNCHANGED <<diff, patch, issues, filtered>>
    /\ UNCHANGED runVars

NextDiff == LinesChanged

SpecDiff == InitDiff /\ [][NextDiff]_vars

InitFilter ==
    /\ diff \in SeqsUpTo(FilterLines, MaxLines)
    /\ patch = Render(diff)
    /\ issues \in SeqsUpTo(Findings, MaxIssues)
    /\ pc = "filter"
    /\ parsed = NotRun
    /\ filtered = NotFiltered
    /\ RunIdle

FilterIssues ==
    /\ pc = "filter"
    /\ filtered' = filterIssues(patch, issues)
    /\ pc' = "filtered"
    /\ UNCHANGED <<diff, patch, issues, parsed>>
    /\ UNCHANGED runVars

\* filterIssues applied to what it returned, against the same patch
FilterAgain ==
    /\ pc = "filtered"
    /\ ~filtered.panic
    /\ issues' = filtered.issues
    /\ filtered' = filterIssues(patch, filtered.issues)
    /\ pc' = "refiltered"
    /\ UNCHANGED <<diff, patch, parsed>>
    /\ UNCHANGED runVars

NextFilter == FilterIssues

SpecFilter == InitFilter /\ [][NextFilter]_vars

\* filterIssues applied twice, to patches that begin with a file section
InitRefilter ==
    /\ diff \in {d \in SeqsUpTo(FilterLines, MaxLines) : d # <<>> => d[1].kind = "file"}
    /\ patch = Render(diff)
    /\ issues \in SeqsUpTo(Findings, MaxIssues)
    /\ pc = "filter"
    /\ parsed = NotRun
    /\ filtered = NotFiltered
    /\ RunIdle

NextRefilter ==
    \/ FilterIssues
    \/ FilterAgain

SpecRefilter == InitRefilter /\ [][NextRefilter]_vars

-----------------------------------------------------------------------------
(* Runner.Run                                                              *)

HasSuffix(s, suffix) ==
    Len(s) >= Len(suffix) /\ SubSeq(s, Len(s) - Len(suffix) + 1, Len(s)) = suffix

\* hasGoCode(patchFile): whether the patch has a file section of a Go file
hasGoCode(lines) ==
    \E k \in 1..Len(lines) :
        /\ HasPrefix(lines[k], <<"+", "+", "+", " ">>)
        /\ HasSuffix(lines[k], <<".", "g", "o">>)

\* a review for a patch without Go code even when there is nothing to say
noGoCodeReviewAlways(o) ==
    [send |-> TRUE,
     request |-> [Body |-> o.NoChangesText,
                  Event |-> IF o.Approve THEN "APPROVE" ELSE "COMMENT",
                  Comments |-> <<>>]]

\* the patch has no Go code: no review when there is no text to send and no
\* leave to approve, else the text as body (when there is one) and the event
noGoCodeReview(o) ==
    IF o.NoChangesText = <<>> /\ ~o.Approve
    THEN [send |-> FALSE, request |-> EmptyRequest]
    ELSE [send |-> TRUE,
          request |-> [Body |-> o.NoChangesText,
                       Event |-> IF o.Approve THEN "APPROVE" ELSE "COMMENT",
                       Comments |-> <<>>]]

\* fmt.Sprintf("golangci-lint found %d issues", n), set only when n > 0
\* a body that counts the findings from zero
issuesBodyFromZero(n) ==
    IF n > 0 THEN <<"golangci-lint found ">> \o Itoa(n - 1) \o <<" issues">>
    ELSE <<>>

\* reviewRequest.Body after `if len(result.Issues) > 0`
issuesBody(n) ==
    IF n > 0 THEN <<"golangci-lint found ">> \o Itoa(n) \o <<" issues">>
    ELSE <<>>

RECURSIVE warningLines(_)
warningLines(w) ==
    IF w = <<>> THEN <<>>
    ELSE <<Head(w).Tag, ": ">> \o Head(w).Text \o <<"\n">> \o warningLines(Tail(w))

\* what the strings.Builder sb holds after the block `if len(warnings) > 0`;
\* the texts of the warnings here have no space around them to trim
warningsText(body, w) ==
    body \o <<",", " but got ">> \o Itoa(Len(w)) \o <<" warnings:", "<code>">>
         \o warningLines(w) \o <<"</code>">>

\* an event that looks at the findings alone
reviewEventIgnoringWarnings(o, nIssues, nWarnings) ==
    IF nIssues <= 0
    THEN (IF o.Approve THEN "APPROVE" ELSE "COMMENT")
    ELSE (IF o.RequestChanges THEN "REQUEST_CHANGES" ELSE "COMMENT")

\* an event that approves whenever it may
reviewEventApproving(o, nIssues, nWarnings) ==
    IF o.Approve THEN "APPROVE"
    ELSE IF nIssues <= 0 /\ nWarnings <= 0 THEN "COMMENT"
    ELSE (IF o.RequestChanges THEN "REQUEST_CHANGES" ELSE "COMMENT")

\* reviewRequest.Event
reviewEvent(o, nIssues, nWarnings) ==
    IF nIssues <= 0 /\ nWarnings <= 0
    THEN (IF o.Approve THEN "APPROVE" ELSE "COMMENT")
    ELSE (IF o.RequestChanges THEN "REQUEST_CHANGES" ELSE "COMMENT")

\* a text that names the analyzer whatever the option says
renderedTextAlways(o, i) == i.Text \o <<" (from ", i.FromLinter, ")">>

\* result.Issues[i].Text after the loop body's first statement
renderedText(o, i) ==
    IF o.PrintLinterName THEN i.Text \o <<" (from ", i.FromLinter, ")">>
    ELSE i.Text

\* a comment placed at the finding's line number
reviewCommentAtLine(o, i) ==
    [Path |-> i.FilePath, Position |-> i.Line, Body |-> renderedText(o, i)]

\* the github.DraftReviewComment appended for one finding
reviewComment(o, i) ==
    [Path |-> i.FilePath, Position |-> i.HunkPos, Body |-> renderedText(o, i)]

\* the request after the stretch from the body to the comments
evaluate(o, iss, w) ==
    LET body == issuesBody(Len(iss))
        sb == IF Len(w) > 0 THEN warningsText(body, w) ELSE <<>>
            \* sb is written and never read: the body stays as it was
    IN  [Body |-> body,
         Event |-> reviewEvent(o, Len(iss), Len(w)),
         Comments |-> [k \in 1..Len(iss) |-> reviewComment(o, iss[k])]]

\* the diffs of the pull requests Run is given: no Go file, an empty diff,
\* Scenario A, two hunks that add the same line number, and an added line
\* of text "++ x"
FileR == <<"R", "E", "A", "D", "M", "E">>

ScenarioA ==
    <<FileLine(FileF), HunkLine(40), TextLine("ctx", TextX), TextLine("ctx", TextX),
      TextLine("add", TextX), TextLine("add", TextX)>>

RunDiffs ==
    {<<FileLine(FileR), HunkLine(40), TextLine("add", TextX)>>,
     <<>>,
     ScenarioA,
     <<FileLine(FileF), HunkLine(40), TextLine("ctx", TextX), TextLine("ctx", TextX),
       TextLine("add", TextX), HunkLine(40), TextLine("ctx", TextX),
       TextLine("ctx", TextX), TextLine("add", TextX)>>,
     <<FileLine(FileF), HunkLine(40), TextLine("add", TextPlus)>>,
     <<FileLine(FileF), BadHunkLine(TextX), TextLine("add", TextX)>>,
     <<FileLine(FileF), BadHunkLine(<<>>), TextLine("add", TextX)>>}

RunFindings ==
    {Issue("unused", <<"unused var">>, FileF, 42),
     Issue("govet", <<"shadow">>, FileF, 42),
     Issue("unused", <<"unused var">>, FileF, 10),
     Issue("unused", <<"unused var">>, FileG, 42)}

Warning(tag, text) == [Tag |-> tag, Text |-> text]

RunWarnings ==
    {<<>>,
     <<Warning("typecheck", <<"failed to load package x">>)>>,
     <<Warning("typecheck", <<"failed to load package x">>),
       Warning("runner", <<"deadline exceeded">>)>>}

\* the texts given with --no-issues-text and --no-new-issues-text
noIssuesTextFlag == <<"no issues">>
noNewIssuesTextFlag == <<"no new issues">>

NoChangesTexts == {<<>>, <<"No go code in changes">>}

Comment(path, position, body) == [Path |-> path, Position |-> position, Body |-> body]

\* the comments the pull request already carries when Run starts: none, or
\* two on two pages, at the position of line 42 of f.go in Scenario A
ExistingPages ==
    {<<>>,
     <<<<Comment(FileF, 3, <<"shadow", " (from ", "govet", ")">>)>>,
       <<Comment(FileF, 3, <<"unused var">>)>>>>}

Init ==
    /\ diff \in RunDiffs
    /\ patch = <<>>
    /\ issues = <<>>
    /\ pc = "begin"
    /\ parsed = NotRun
    /\ filtered = NotFiltered
    /\ opts \in [Approve : BOOLEAN, RequestChanges : BOOLEAN, DryRun : BOOLEAN,
                 NoChangesText : NoChangesTexts, PrintLinterName : BOOLEAN]
    /\ warnings = <<>>
    /\ reviewRequest = EmptyRequest
    /\ calls = <<>>
    /\ ret = "none"
    /\ workDir = "none"
    /\ ctx = "live"
    /\ prPages = <<>>
    /\ previous = <<>>
    /\ ServerIdle
    /\ ConfigIdle

Call(op) == [op |-> op]

\* what a stage that fails, or that only moves on, leaves alone
stageVars == <<diff, patch, issues, parsed, filtered, opts, warnings, reviewRequest>>

\* a stage fails: Run returns the error
Fail(stage, op, err) ==
    /\ pc = stage
    /\ calls' = Append(calls, Call(op))
    /\ ret' = err
    /\ pc' = "done"
    /\ UNCHANGED stageVars
    /\ UNCHANGED <<workDir, ctx, prPages, previous>>
    /\ UNCHANGED <<srvVars, cfgVars>>

\* a stage succeeds and changes nothing the model keeps
Pass(stage, op, next) ==
    /\ pc = stage
    /\ calls' = Append(calls, Call(op))
    /\ pc' = next
    /\ UNCHANGED stageVars
    /\ UNCHANGED <<ret, ctx, prPages, previous>>
    /\ UNCHANGED <<srvVars, cfgVars>>

\* workDir, err := ioutil.TempDir(...), and the deferred removal is set up
CreateWorkDir ==
    /\ Pass("begin", "TempDir", "mkrepo")
    /\ workDir' = "exists"

CreateWorkDirFailed == Fail("begin", "TempDir", "unable to create work directory")

\* os.MkdirAll(repoDir, 0744)
MakeRepoDir ==
    /\ Pass("mkrepo", "MkdirAll", "clone")
    /\ UNCHANGED workDir

MakeRepoDirFailed == Fail("mkrepo", "MkdirAll", "unable to create repo directory")

\* runner.clone: git.PlainCloneContext under runner.Options.Context
Clone ==
    /\ ctx = "live"
    /\ Pass("clone", "clone", "config")
    /\ UNCHANGED workDir

\* the clone fails, as it does when the context is done; what it wrote so
\* far stays in the work directory
CloneFailed == Fail("clone", "clone", "unable to clone git repository")

\* runner.readRepoConfig(repoDir)
ReadRepoConfig ==
    /\ Pass("config", "readRepoConfig", "start")
    /\ UNCHANGED workDir

ReadRepoConfigFailed == Fail("config", "readRepoConfig", "unable to read config")

\* downloadPatch: the diff of the pull request, written to the patch file
DownloadPatch ==
    /\ pc = "start"
    /\ patch' = Render(diff)
    /\ calls' = Append(calls, Call("GetRaw"))
    /\ pc' = "detect"
    /\ UNCHANGED <<diff, issues, parsed, filtered, opts, warnings, reviewRequest, ret>>
    /\ UNCHANGED <<workDir, ctx, prPages, previous>>
    /\ UNCHANGED <<srvVars, cfgVars>>

\* downloadPatch fails: Run returns its error
DownloadPatchFailed ==
    /\ pc = "start"
    /\ calls' = Append(calls, Call("GetRaw"))
    /\ ret' = "unable to download patch file"
    /\ pc' = "done"
    /\ UNCHANGED <<diff, patch, issues, parsed, filtered, opts, warnings, reviewRequest>>
    /\ UNCHANGED <<workDir, ctx, prPages, previous>>
    /\ UNCHANGED <<srvVars, cfgVars>>

\* goCode, err := hasGoCode(patchFile), and the branch `if !goCode`
DetectGoCode ==
    /\ pc = "detect"
    /\ calls' = Append(calls, Call("hasGoCode"))
    /\ IF hasGoCode(patch)
       THEN /\ pc' = "lint"
            /\ UNCHANGED <<reviewRequest, ret>>
       ELSE LET r == noGoCodeReview(opts)
            IN  IF r.send
                THEN /\ reviewRequest' = r.request
                     /\ pc' = "sendNoChanges"
                     /\ UNCHANGED ret
                ELSE /\ ret' = "nil"
                     /\ pc' = "done"
                     /\ UNCHANGED reviewRequest
    /\ UNCHANGED <<diff, patch, issues, parsed, filtered, opts, warnings>>
    /\ UNCHANGED <<workDir, ctx, prPages, previous>>
    /\ UNCHANGED <<srvVars, cfgVars>>

\* hasGoCode returns an error
DetectGoCodeFailed == Fail("detect", "hasGoCode", "unable to detect go code")

\* runner.runLinter: the analyzer's findings and warnings; run again on the
\* same head commit it reports what it reported before
RunLinter ==
    /\ pc = "lint"
    /\ \E iss \in SeqsUpTo(RunFindings, MaxIssues), w \in RunWarnings :
          /\ previous # <<>> => iss = previous[1].issues /\ w = previous[1].warnings
          /\ issues' = iss
          /\ warnings' = w
    /\ calls' = Append(calls, Call("runLinter"))
    /\ pc' = "filter"
    /\ UNCHANGED <<diff, patch, parsed, filtered, opts, reviewRequest, ret>>
    /\ UNCHANGED <<workDir, ctx, prPages, previous>>
    /\ UNCHANGED <<srvVars, cfgVars>>

\* runner.runLinter fails: Run returns its error
RunLinterFailed ==
    /\ pc = "lint"
    /\ calls' = Append(calls, Call("runLinter"))
    /\ ret' = "can't run golangci-lint"
    /\ pc' = "done"
    /\ UNCHANGED <<diff, patch, issues, parsed, filtered, opts, warnings, reviewRequest>>
    /\ UNCHANGED <<workDir, ctx, prPages, previous>>
    /\ UNCHANGED <<srvVars, cfgVars>>

\* result.Issues, err = filterIssues(patchFile, result.Issues); a panic in it
\* ends the process
FilterStage ==
    /\ pc = "filter"
    /\ filtered' = filterIssues(patch, issues)
    /\ calls' = Append(calls, Call("filterIssues"))
    /\ pc' = IF filtered'.panic THEN "panic" ELSE "evaluate"
    /\ UNCHANGED <<diff, patch, issues, parsed, opts, warnings, reviewRequest, ret>>
    /\ UNCHANGED <<workDir, ctx, prPages, previous>>
    /\ UNCHANGED <<srvVars, cfgVars>>

\* filterIssues returns an error: the patch file cannot be opened or read
FilterStageFailed == Fail("filter", "filterIssues", "unable to read patch file")

\* from the body to the comments of the review request
Evaluate ==
    /\ pc = "evaluate"
    /\ reviewRequest' = evaluate(opts, filtered.issues, warnings)
    /\ pc' = "send"
    /\ UNCHANGED <<diff, patch, issues, parsed, filtered, opts, warnings, calls, ret>>
    /\ UNCHANGED <<workDir, ctx, prPages, previous>>
    /\ UNCHANGED <<srvVars, cfgVars>>

Sending == pc \in {"send", "sendNoChanges"}

\* a sendReview that does not look at the option
dryRunIgnored(o) == FALSE

\* sendReview: if runner.Options.DryRun { ...; return nil }
isDryRun(o) == o.DryRun

\* the pull request's comments after GitHub has accepted a review with these
posted(pages, comments) ==
    IF comments = <<>> THEN pages ELSE Append(pages, comments)

\* sendReview with DryRun: nothing is sent
SendReviewDryRun ==
    /\ Sending
    /\ isDryRun(opts)
    /\ ret' = "nil"
    /\ pc' = "done"
    /\ UNCHANGED <<diff, patch, issues, parsed, filtered, opts, warnings,
                   reviewRequest, calls>>
    /\ UNCHANGED <<workDir, ctx, prPages, previous>>
    /\ UNCHANGED <<srvVars, cfgVars>>

\* sendReview: PullRequests.CreateReview accepts the review
SendReviewCreated ==
    /\ Sending
    /\ ~isDryRun(opts)
    /\ ctx = "live"
    /\ prPages' = posted(prPages, reviewRequest.Comments)
    /\ calls' = Append(calls, [op |-> "CreateReview", request |-> reviewRequest])
    /\ ret' = "nil"
    /\ pc' = "done"
    /\ UNCHANGED <<diff, patch, issues, parsed, filtered, opts, warnings,
                   reviewRequest>>
    /\ UNCHANGED <<workDir, ctx, previous>>
    /\ UNCHANGED <<srvVars, cfgVars>>

\* sendReview: PullRequests.CreateReview fails
SendReviewFailed ==
    /\ Sending
    /\ ~isDryRun(opts)
    /\ calls' = Append(calls, [op |-> "CreateReview", request |-> reviewRequest])
    /\ ret' = IF pc = "send" THEN "unable to send review: unable to create review"
              ELSE "unable to create review"
    /\ pc' = "done"
    /\ UNCHANGED <<diff, patch, issues, parsed, filtered, opts, warnings,
                   reviewRequest>>
    /\ UNCHANGED <<workDir, ctx, prPages, previous>>
    /\ UNCHANGED <<srvVars, cfgVars>>

\* the deadline of runner.Options.Context passes while Run is under way
TimeoutFires ==
    /\ ctx = "live"
    /\ pc \notin {"done", "returned", "panic", "crashed"}
    /\ ctx' = "expired"
    /\ UNCHANGED <<pc, calls, ret, workDir, prPages, previous>>
    /\ UNCHANGED stageVars
    /\ UNCHANGED <<srvVars, cfgVars>>

\* a work directory that is removed only when Run succeeds
removeWorkDirOnSuccess(dir, r) ==
    IF dir = "exists" /\ r = "nil" THEN "removed" ELSE dir

\* the deferred function of Run: the work directory, once created, is made
\* writable and removed, whatever Run returns
removeWorkDir(dir, r) ==
    IF dir = "exists" THEN "removed" ELSE dir

\* Run returns: its deferred function runs and the caller gets ret
Return ==
    /\ pc = "done"
    /\ workDir' = removeWorkDir(workDir, ret)
    /\ pc' = "returned"
    /\ UNCHANGED <<calls, ret, ctx, prPages, previous>>
    /\ UNCHANGED stageVars
    /\ UNCHANGED <<srvVars, cfgVars>>

\* a panic in Run unwinds through the deferred function and ends the process
Unwind ==
    /\ pc = "panic"
    /\ workDir' = removeWorkDir(workDir, ret)
    /\ pc' = "crashed"
    /\ UNCHANGED <<calls, ret, ctx, prPages, previous>>
    /\ UNCHANGED stageVars
    /\ UNCHANGED <<srvVars, cfgVars>>

\* Run is started once more for the same pull request, head commit and diff,
\* after a run whose review GitHub accepted
Rerun ==
    /\ pc = "returned"
    /\ previous = <<>>
    /\ ret = "nil"
    /\ \E k \in 1..Len(calls) : calls[k].op = "CreateReview"
    /\ previous' = <<[issues |-> issues, warnings |-> warnings,
                      request |-> reviewRequest]>>
    /\ patch' = <<>>
    /\ issues' = <<>>
    /\ filtered' = NotFiltered
    /\ warnings' = <<>>
    /\ reviewRequest' = EmptyRequest
    /\ calls' = <<>>
    /\ ret' = "none"
    /\ workDir' = "none"
    /\ ctx' = "live"
    /\ pc' = "begin"
    /\ UNCHANGED <<diff, parsed, opts, prPages>>
    /\ UNCHANGED <<srvVars, cfgVars>>

Next ==
    \/ CreateWorkDir
    \/ CreateWorkDirFailed
    \/ MakeRepoDir
    \/ MakeRepoDirFailed
    \/ Clone
    \/ CloneFailed
    \/ ReadRepoConfig
    \/ ReadRepoConfigFailed
    \/ DownloadPatch
    \/ DownloadPatchFailed
    \/ DetectGoCode
    \/ DetectGoCodeFailed
    \/ RunLinter
    \/ RunLinterFailed
    \/ FilterStage
    \/ FilterStageFailed
    \/ Evaluate
    \/ SendReviewDryRun
    \/ SendReviewCreated
    \/ SendReviewFailed
    \/ TimeoutFires
    \/ Return
    \/ Unwind

Spec == Init /\ [][Next]_vars

\* Run on a pull request that may carry comments already, and run again
InitPull ==
    /\ diff \in {ScenarioA, <<FileLine(FileF), HunkLine(40), TextLine("add", TextPlus)>>}
    /\ patch = <<>>
    /\ issues = <<>>
    /\ pc = "begin"
    /\ parsed = NotRun
    /\ filtered = NotFiltered
    /\ opts \in [Approve : BOOLEAN, RequestChanges : BOOLEAN, DryRun : BOOLEAN,
                 NoChangesText : {<<>>}, PrintLinterName : BOOLEAN]
    /\ warnings = <<>>
    /\ reviewRequest = EmptyRequest
    /\ calls = <<>>
    /\ ret = "none"
    /\ workDir = "none"
    /\ ctx = "live"
    /\ prPages \in ExistingPages
    /\ previous = <<>>
    /\ ServerIdle
    /\ ConfigIdle

NextPull ==
    \/ Next
    \/ Rerun

SpecPull == InitPull /\ [][NextPull]_vars

-----------------------------------------------------------------------------
(* Server: the queue of runners, its consumer, and the webhook handler.    *)

notServer == <<diff, patch, issues, pc, parsed, filtered, opts, warnings,
               reviewRequest, calls, ret, workDir, ctx, prPages, previous,
               defaults, heap, linterConfig, repoConfig, configRet, configRuns>>

\* an unrecovered panic in a goroutine of the server has ended the process
Crashed == \E r \in Requests : runs[r] = "panic"

\* the first goroutine slot that is free gets a consumer
startWorker(w) ==
    IF \E k \in Workers : w[k].state = "none"
    THEN LET k == CHOOSE k \in Workers :
                      w[k].state = "none" /\ \A j \in Workers : j < k => w[j].state # "none"
         IN  [w EXCEPT ![k] = [state |-> "idle", runner |-> 0]]
    ELSE w

\* a consumer started by every call
startQueueEveryCall(once, w) == startWorker(w)

\* srv.queueStarter.Do(func() { go srv.workQueue() })
startQueue(once, w) == IF once THEN w ELSE startWorker(w)

\* Server.HttpHandler: starts the queue and returns the handler
HttpHandler ==
    /\ ~Crashed
    /\ handlerCalls < MaxHttpHandlers
    /\ handlerCalls' = handlerCalls + 1
    /\ workers' = startQueue(started, workers)
    /\ started' = TRUE
    /\ UNCHANGED <<queue, closed, req, responses, runs>>
    /\ UNCHANGED <<events, srvOptions>>
    /\ UNCHANGED notServer

\* how the handler ends before it gets to the queue: an invalid payload or an
\* unknown event (400), an event that needs no run (200), a pull request
\* event for which no runner can be made (500)
EarlyResponses == {"400", "200", "500"}

\* handler, handleEvent, handlePullRequest and handlePullRequestOpened up to
\* the select: the request is answered, or it has a runner to enqueue
Receive(r) ==
    /\ ~Crashed
    /\ handlerCalls > 0
    /\ req[r] = "idle"
    /\ \/ \E status \in EarlyResponses :
             /\ req' = [req EXCEPT ![r] = "done"]
             /\ responses' = [responses EXCEPT ![r] = status]
       \/ /\ req' = [req EXCEPT ![r] = "select"]
          /\ UNCHANGED responses
    /\ UNCHANGED <<queue, closed, started, handlerCalls, workers, runs>>
    /\ UNCHANGED <<events, srvOptions>>
    /\ UNCHANGED notServer

\* a send that finds room whatever the buffer holds
trySendNoLimit(q, isClosed, r) ==
    IF isClosed THEN [outcome |-> "panic", queue |-> q]
    ELSE [outcome |-> "sent", queue |-> Append(q, r)]

\* select { case srv.queue <- runner: ... default: ... }: a send on a closed
\* channel panics; else the runner goes into the buffer if there is room;
\* else the default case is taken
trySend(q, isClosed, r) ==
    IF isClosed THEN [outcome |-> "panic", queue |-> q]
    ELSE IF Len(q) < QueueSize THEN [outcome |-> "sent", queue |-> Append(q, r)]
    ELSE [outcome |-> "full", queue |-> q]

\* what the caller gets: 200 from handler, 503 from the WireError, and a
\* connection that net/http drops when the handler panicked
responseOf(outcome) ==
    CASE outcome = "sent" -> "200"
      [] outcome = "full" -> "503"
      [] outcome = "panic" -> "aborted"

\* the select of handlePullRequestOpened and the answer of handler
Enqueue(r) ==
    /\ ~Crashed
    /\ req[r] = "select"
    /\ LET s == trySend(queue, closed, r)
       IN  /\ queue' = s.queue
           /\ responses' = [responses EXCEPT ![r] = responseOf(s.outcome)]
           /\ runs' = IF s.outcome = "sent" THEN [runs EXCEPT ![r] = "queued"] ELSE runs
    /\ req' = [req EXCEPT ![r] = "done"]
    /\ UNCHANGED <<closed, started, handlerCalls, workers>>
    /\ UNCHANGED <<events, srvOptions>>
    /\ UNCHANGED notServer

\* workQueue: for runner := range srv.queue, the runner gets its context and
\* Run is called
Dequeue(w) ==
    /\ ~Crashed
    /\ workers[w].state = "idle"
    /\ queue # <<>>
    /\ workers' = [workers EXCEPT ![w] = [state |-> "running", runner |-> Head(queue)]]
    /\ runs' = [runs EXCEPT ![Head(queue)] = "running"]
    /\ queue' = Tail(queue)
    /\ UNCHANGED <<closed, started, handlerCalls, req, responses>>
    /\ UNCHANGED <<events, srvOptions>>
    /\ UNCHANGED notServer

\* workQueue: Run returns, with nil or with an error that is logged, and the
\* loop goes back to the channel
Finish(w) ==
    /\ ~Crashed
    /\ workers[w].state = "running"
    /\ \E result \in {"nil", "error"} :
          runs' = [runs EXCEPT ![workers[w].runner] = result]
    /\ workers' = [workers EXCEPT ![w] = [state |-> "idle", runner |-> 0]]
    /\ UNCHANGED <<queue, closed, started, handlerCalls, req, responses>>
    /\ UNCHANGED <<events, srvOptions>>
    /\ UNCHANGED notServer

\* workQueue: Run panics; nothing recovers it
RunPanics(w) ==
    /\ ~Crashed
    /\ workers[w].state = "running"
    /\ runs' = [runs EXCEPT ![workers[w].runner] = "panic"]
    /\ UNCHANGED <<queue, closed, started, handlerCalls, workers, req, responses>>
    /\ UNCHANGED <<events, srvOptions>>
    /\ UNCHANGED notServer

\* workQueue: the channel is closed and empty, the range loop ends
Exit(w) ==
    /\ ~Crashed
    /\ workers[w].state = "idle"
    /\ queue = <<>>
    /\ closed
    /\ workers' = [workers EXCEPT ![w] = [state |-> "exited", runner |-> 0]]
    /\ UNCHANGED <<queue, closed, started, handlerCalls, req, responses, runs>>
    /\ UNCHANGED <<events, srvOptions>>
    /\ UNCHANGED notServer

\* Server.Close, called once
Close ==
    /\ ~Crashed
    /\ ~closed
    /\ closed' = TRUE
    /\ UNCHANGED <<queue, started, handlerCalls, workers, req, responses, runs>>
    /\ UNCHANGED <<events, srvOptions>>
    /\ UNCHANGED notServer

InitServer ==
    /\ diff = <<>>
    /\ patch = <<>>
    /\ issues = <<>>
    /\ pc = "server"
    /\ parsed = NotRun
    /\ filtered = NotFiltered
    /\ RunIdle

NextServer ==
    \/ HttpHandler
    \/ \E r \in Requests : Receive(r)
    \/ \E r \in Requests : Enqueue(r)
    \/ \E w \in Workers : Dequeue(w)
    \/ \E w \in Workers : Finish(w)
    \/ \E w \in Workers : RunPanics(w)
    \/ \E w \in Workers : Exit(w)
    \/ Close

SpecServer == InitServer /\ [][NextServer]_vars

\* NewRunner: the four fields that must be set, in the order of its tests
newRunnerError(o) ==
    IF ~o.Client THEN "Client must be specified"
    ELSE IF ~o.CloneToken THEN "CloneToken must be specified"
    ELSE IF ~o.Context THEN "Context must be specified"
    ELSE IF ~o.Logger THEN "Logger must be specified"
    ELSE ""

\* handlePullRequestOpened up to the select: the status it ends with, or
\* "select" when it has a runner for the queue
handlePullRequestOpened(o, e) ==
    IF ~e.complete THEN "500"
    ELSE IF ~e.token THEN "500"
    ELSE LET opts1 == [o EXCEPT !.CloneToken = TRUE, !.Client = TRUE]
         IN  IF newRunnerError(opts1) # "" THEN "500" ELSE "select"

\* a handler that takes a pull request event of any action for a new one
handlePullRequestAnyAction(o, e) == handlePullRequestOpened(o, e)

\* handlePullRequest: the three actions that start a run; any other is
\* logged and answered 200
handlePullRequest(o, e) ==
    IF e.action \in {"opened", "reopened", "synchronize"}
    THEN handlePullRequestOpened(o, e)
    ELSE "200"

\* handleEvent
handleEvent(o, e) ==
    IF ~e.valid THEN "400"
    ELSE CASE e.type = "pull_request" -> handlePullRequest(o, e)
           [] e.type \in {"ping", "installation"} -> "200"
           [] OTHER -> "400"

\* handler and handleEvent for the event the request carries, up to the
\* select of handlePullRequestOpened; the requests are numbered as they arrive
HandleEvent(r) ==
    /\ handlerCalls > 0
    /\ req[r] = "idle"
    /\ \A j \in Requests : j < r => req[j] # "idle"
    /\ \E e \in Events :
          LET status == handleEvent(srvOptions, e)
          IN  /\ events' = [events EXCEPT ![r] = e]
              /\ IF status = "select"
                 THEN /\ req' = [req EXCEPT ![r] = "select"]
                      /\ UNCHANGED responses
                 ELSE /\ req' = [req EXCEPT ![r] = "done"]
                      /\ responses' = [responses EXCEPT ![r] = status]
    /\ UNCHANGED <<queue, closed, started, handlerCalls, workers, runs, srvOptions>>
    /\ UNCHANGED notServer

\* the server of the command (app mode), and a server whose caller set a
\* Context in the options
InitWebhook ==
    /\ diff = <<>>
    /\ patch = <<>>
    /\ issues = <<>>
    /\ pc = "server"
    /\ parsed = NotRun
    /\ filtered = NotFiltered
    /\ opts = NoOptions
    /\ warnings = <<>>
    /\ reviewRequest = EmptyRequest
    /\ calls = <<>>
    /\ ret = "none"
    /\ workDir = "none"
    /\ ctx = "live"
    /\ prPages = <<>>
    /\ previous = <<>>
    /\ queue = <<>>
    /\ closed = FALSE
    /\ started = FALSE
    /\ handlerCalls = 0
    /\ workers = [w \in Workers |-> NoWorker]
    /\ req = [r \in Requests |-> "idle"]
    /\ responses = [r \in Requests |-> "none"]
    /\ runs = [r \in Requests |-> "none"]
    /\ events = [r \in Requests |-> NoEvent]
    /\ srvOptions \in {mainOptions, callerOptions}
    /\ ConfigIdle

NextWebhook ==
    \/ HttpHandler
    \/ \E r \in Requests : HandleEvent(r)
    \/ \E r \in Requests : Enqueue(r)
    \/ \E w \in Workers : Dequeue(w)
    \/ \E w \in Workers : Finish(w)

SpecWebhook == InitWebhook /\ [][NextWebhook]_vars

\* the consumer goroutine is scheduled, and a Run that was started ends, by
\* returning or by panicking
SpecServerLive ==
    /\ SpecServer
    /\ WF_vars(\E w \in Workers : Dequeue(w))
    /\ WF_vars(\E w \in Workers : Finish(w) \/ RunPanics(w))

-----------------------------------------------------------------------------
(* Runs made one after the other from the options of the server.           *)

\* what is not the configuration
notConfig == <<diff, patch, issues, parsed, filtered, opts, warnings,
               reviewRequest, calls, ret, workDir, ctx, prPages, previous,
               queue, closed, started, handlerCalls, workers, req, responses, runs,
               events, srvOptions>>

\* handlePullRequestOpened: opts := *srv.Options.Options, and NewRunner(opts)
\* with Options: &options; the struct is copied, its slices are not. The
\* repository the run will clone has one of the config files.
NewRunner ==
    /\ pc = "accept"
    /\ configRuns < MaxRuns
    /\ linterConfig' = defaults
    /\ repoConfig' \in RepoConfigs
    /\ configRet' = "none"
    /\ pc' = "config"
    /\ UNCHANGED <<defaults, heap, configRuns>>
    /\ UNCHANGED notConfig

\* Run: runner.readRepoConfig(repoDir)
ReadRepoConfigFile ==
    /\ pc = "config"
    /\ \E readErr \in BOOLEAN :
          LET r == readRepoConfig(heap, linterConfig, repoConfig, readErr)
          IN  /\ heap' = r.heap
              /\ linterConfig' = r.config
              /\ configRet' = r.ret
    /\ pc' = "configured"
    /\ UNCHANGED <<defaults, repoConfig, configRuns>>
    /\ UNCHANGED notConfig

\* the run is over and the server takes the next pull request
RunOver ==
    /\ pc = "configured"
    /\ configRuns' = configRuns + 1
    /\ pc' = "accept"
    /\ UNCHANGED <<defaults, heap, linterConfig, repoConfig, configRet>>
    /\ UNCHANGED notConfig

InitConfig ==
    /\ diff = <<>>
    /\ patch = <<>>
    /\ issues = <<>>
    /\ pc = "accept"
    /\ parsed = NotRun
    /\ filtered = NotFiltered
    /\ RunIdle

NextConfig ==
    \/ NewRunner
    \/ ReadRepoConfigFile
    \/ RunOver

SpecConfig == InitConfig /\ [][NextConfig]_vars

-----------------------------------------------------------------------------
(* What the diff says, read off its structure and not off its text.        *)

IsText(l) == l.kind \in {"ctx", "del", "add"}

Max(S) == CHOOSE x \in S : \A y \in S : y <= x
Min(S) == CHOOSE x \in S : \A y \in S : x <= y

\* the file marker whose section holds line i (0: none)
SectionOf(d, i) == Max({0} \cup {j \in 1..i : d[j].kind = "file"})

\* the hunk header whose hunk holds line i (0: none in this section)
HunkOf(d, i) ==
    Max({0} \cup {h \in (SectionOf(d, i) + 1)..(i - 1) : d[h].kind = "hunk"})

\* the first hunk header of the section that holds line i (0: none)
FirstHunkOf(d, i) ==
    LET hs == {h \in (SectionOf(d, i) + 1)..(i - 1) : d[h].kind = "hunk"}
    IN  IF hs = {} THEN 0 ELSE Min(hs)

\* a diff as git writes it: sections of distinct files, each a file marker
\* directly followed by one or more hunks, each hunk a header and its lines
WellFormed(d) ==
    /\ d # <<>> => d[1].kind = "file"
    /\ \A i \in 1..Len(d) :
          /\ d[i].kind = "file" => i < Len(d) /\ d[i + 1].kind = "hunk"
          /\ d[i].kind = "hunk" => i < Len(d) /\ IsText(d[i + 1])
    /\ \A i, j \in 1..Len(d) :
          d[i].kind = "file" /\ d[j].kind = "file" /\ d[i].path = d[j].path => i = j

AddedLines(d) == {i \in 1..Len(d) : d[i].kind = "add"}

\* the number of added line i in the new version of its file
TrueLineNo(d, i) ==
    LET h == HunkOf(d, i)
    IN  d[h].start + Cardinality({j \in (h + 1)..(i - 1) : d[j].kind \in {"ctx", "add"}})

\* the number of diff lines after the first hunk header of the file's
\* section, up to and including line i
TruePosition(d, i) == i - FirstHunkOf(d, i)

TruePath(d, i) == d[SectionOf(d, i)].path

Recorded(changes) ==
    UNION {{<<p, changes[p][k].lineNo>> : k \in 1..Len(changes[p])} :
              p \in DOMAIN changes}

HasEntry(changes, p, lineNo, hunkPos) ==
    /\ p \in DOMAIN changes
    /\ \E k \in 1..Len(changes[p]) :
          changes[p][k] = [lineNo |-> lineNo, hunkPos |-> hunkPos]

-----------------------------------------------------------------------------
(* Claims.                                                                 *)

\* the findings with HunkPos as the analyzer left it
Unpositioned(iss) == [k \in 1..Len(iss) |-> [iss[k] EXCEPT !.HunkPos = 0]]

OnAddedLine(changes, i) ==
    /\ i.FilePath \in DOMAIN changes
    /\ \E k \in 1..Len(changes[i.FilePath]) : changes[i.FilePath][k].lineNo = i.Line

\* C1: filterIssues returns exactly the findings whose file is a key of the
\* index linesChanged builds from the patch and whose line is the lineNo of an
\* entry of that file, each once and in the order of the input; every other
\* finding is dropped.
C1_FilterExact ==
    pc = "filtered" /\ ~filtered.panic =>
        LET index == linesChanged(patch).changes
            Kept(i) == OnAddedLine(index, i)
        IN  Unpositioned(filtered.issues) = SelectSeq(issues, Kept)

\* a finding on an untouched line of a touched file is dropped and the
\* finding after it, on an added line, is kept
C1_Witness ==
    /\ pc = "filtered"
    /\ Len(issues) = 2
    /\ Len(filtered.issues) = 1
    /\ issues[1].FilePath \in DOMAIN linesChanged(patch).changes
    /\ issues[1].Line # issues[2].Line
    /\ filtered.issues[1].Line = issues[2].Line

\* C3: round trip. For a well-formed diff the (file, lineNo) pairs linesChanged
\* records are exactly the added lines of the diff at their numbers in the new
\* version of the file.
C3_RoundTrip ==
    pc = "parsed" /\ WellFormed(diff) =>
        /\ ~parsed.panic
        /\ Recorded(parsed.changes) =
              {<<TruePath(diff, i), TrueLineNo(diff, i)>> : i \in AddedLines(diff)}

\* C4: for a well-formed diff that linesChanged got through, every entry it
\* recorded under a file is an added line of that file, with the line's number
\* and with, as hunkPos, the number of diff lines after the first hunk header
\* of the file's section up to and including the line.
C4_PositionFromFirstHeader ==
    pc = "parsed" /\ WellFormed(diff) /\ ~parsed.panic =>
        \A p \in DOMAIN parsed.changes :
            \A k \in 1..Len(parsed.changes[p]) :
                \E i \in AddedLines(diff) :
                    /\ TruePath(diff, i) = p
                    /\ TrueLineNo(diff, i) = parsed.changes[p][k].lineNo
                    /\ TruePosition(diff, i) = parsed.changes[p][k].hunkPos

\* C5: in the map linesChanged returns, for any text, the hunkPos values of
\* one file's entries are strictly increasing in stored order.
C5_PositionsIncrease ==
    pc = "parsed" =>
        \A p \in DOMAIN parsed.changes :
            \A k \in 1..(Len(parsed.changes[p]) - 1) :
                parsed.changes[p][k].hunkPos < parsed.changes[p][k + 1].hunkPos

\* a file with two entries from two hunks, the second header between them
C5_Witness ==
    /\ pc = "parsed"
    /\ FileF \in DOMAIN parsed.changes
    /\ Len(parsed.changes[FileF]) = 2
    /\ parsed.changes[FileF][2].hunkPos = parsed.changes[FileF][1].hunkPos + 2
    /\ parsed.changes[FileF][2].lineNo = parsed.changes[FileF][1].lineNo

\* the reviews Run has handed to PullRequests.CreateReview
Submitted == {k \in 1..Len(calls) : calls[k].op = "CreateReview"}

Called(op) == \E k \in 1..Len(calls) : calls[k].op = op

\* Run got past the filter with Go code in the patch and has chosen the event
Evaluated ==
    /\ pc \in {"send", "done", "returned"}
    /\ Called("filterIssues")
    /\ reviewRequest.Event # ""

Passing == Len(filtered.issues) = 0 /\ Len(warnings) = 0

\* the first entry of a file's positions that has the line
FirstEntry(positions, line) ==
    positions[Min({j \in 1..Len(positions) : positions[j].lineNo = line})]

\* C2: every comment of a review Run submits is at the hunkPos of the first
\* entry of the diff index that has the finding's file and line, the comments
\* being those of the findings on added lines, in order.
C2_CommentAtHunkPos ==
    \A k \in Submitted :
        LET index == linesChanged(patch).changes
            Kept(i) == OnAddedLine(index, i)
            found == SelectSeq(issues, Kept)
            comments == calls[k].request.Comments
        IN  /\ Len(comments) = Len(found)
            /\ \A n \in 1..Len(comments) :
                  /\ comments[n].Path = found[n].FilePath
                  /\ comments[n].Position =
                        FirstEntry(index[found[n].FilePath], found[n].Line).hunkPos

\* a submitted comment on a line the diff adds twice: it sits at the first
\* entry's position, which is neither the second's nor the line number
C2_Witness ==
    \E k \in Submitted :
        /\ Len(calls[k].request.Comments) >= 1
        /\ LET c == calls[k].request.Comments[1]
               positions == linesChanged(patch).changes[c.Path]
           IN  /\ Len(positions) = 2
               /\ positions[1].lineNo = positions[2].lineNo
               /\ c.Position = positions[1].hunkPos
               /\ c.Position # positions[1].lineNo

\* C6 as stated: with Go code in the patch, the event is APPROVE or COMMENT
\* (APPROVE iff Approve is set) exactly when no finding remains and there is no
\* warning, and it is never APPROVE otherwise.
C6_ApproveOrCommentIffPassing ==
    Evaluated =>
        LET ev == reviewRequest.Event
        IN  /\ (ev \in {"APPROVE", "COMMENT"} /\ (ev = "APPROVE" <=> opts.Approve))
                   <=> Passing
            /\ ev = "APPROVE" => Passing

\* C6, amended: with Go code in the patch, when no finding remains and there
\* is no warning the event is APPROVE if Approve is set and COMMENT otherwise,
\* and the event is APPROVE in no other case.
C6_PassingEvent ==
    Evaluated =>
        LET ev == reviewRequest.Event
        IN  /\ Passing => ev = (IF opts.Approve THEN "APPROVE" ELSE "COMMENT")
            /\ ev = "APPROVE" => Passing

\* findings were reported and warnings too, none is left after the filter and
\* Approve is set: the warning alone keeps the event from APPROVE
C6_Witness ==
    /\ pc = "done"
    /\ Called("filterIssues")
    /\ opts.Approve
    /\ Len(issues) > 0
    /\ Len(filtered.issues) = 0
    /\ Len(warnings) = 1
    /\ reviewRequest.Event # "APPROVE"

\* C7: with Go code in the patch, when a finding remains or there is a warning
\* the event is REQUEST_CHANGES if RequestChanges is set and COMMENT otherwise.
C7_NotPassingEvent ==
    Evaluated /\ ~Passing =>
        reviewRequest.Event =
            (IF opts.RequestChanges THEN "REQUEST_CHANGES" ELSE "COMMENT")

\* Scenario D: no finding, one warning, RequestChanges and Approve both set
C7_Witness ==
    /\ pc = "done"
    /\ Called("filterIssues")
    /\ Len(issues) = 0
    /\ Len(warnings) = 1
    /\ opts.RequestChanges
    /\ opts.Approve
    /\ reviewRequest.Event = "REQUEST_CHANGES"

\* C8: a review whose event is REQUEST_CHANGES or COMMENT and whose body is
\* empty is never handed to PullRequests.CreateReview.
C8_EmptyVerdictNotSent ==
    \A k \in Submitted :
        ~ /\ calls[k].request.Event \in {"REQUEST_CHANGES", "COMMENT"}
          /\ calls[k].request.Body = <<>>

NoGoCodeRequest ==
    [Body |-> opts.NoChangesText,
     Event |-> IF opts.Approve THEN "APPROVE" ELSE "COMMENT",
     Comments |-> <<>>]

\* C9: when the patch has no Go code, Run calls neither the analyzer nor the
\* filter; the review it sends has the event APPROVE if Approve is set and
\* COMMENT otherwise, NoChangesText as body and no comments; with an empty
\* NoChangesText and Approve not set it sends nothing and returns no error.
C9_NoGoCodeShortCircuit ==
    Called("hasGoCode") /\ ret # "unable to detect go code" /\ ~hasGoCode(patch) =>
        /\ ~Called("runLinter") /\ ~Called("filterIssues")
        /\ \A k \in Submitted : calls[k].request = NoGoCodeRequest
        /\ pc = "sendNoChanges" => reviewRequest = NoGoCodeRequest
        /\ opts.NoChangesText = <<>> /\ ~opts.Approve =>
              pc \in {"done", "returned"} /\ Submitted = {} /\ ret = "nil"
        /\ opts.NoChangesText # <<>> \/ opts.Approve =>
              opts.DryRun \/ pc = "sendNoChanges" \/ Submitted # {}

\* a patch of a README alone, approved with the configured text
C9_Witness ==
    /\ pc = "done"
    /\ Called("hasGoCode")
    /\ patch # <<>>
    /\ ~hasGoCode(patch)
    /\ \E k \in Submitted :
          /\ calls[k].request.Event = "APPROVE"
          /\ calls[k].request.Body = <<"No go code in changes">>

Contains(body, pieces) ==
    \E a \in 0..(Len(body) - Len(pieces)) :
        SubSeq(body, a + 1, a + Len(pieces)) = pieces

\* C10: when the analyzer returns warnings Run still gets to the submission,
\* and the body of the review it submits holds the tag and the text of each.
C10_WarningsInBody ==
    /\ pc = "done" /\ Evaluated /\ ~opts.DryRun => Submitted # {}
    /\ \A k \in Submitted :
          \A j \in 1..Len(warnings) :
              /\ Contains(calls[k].request.Body, <<warnings[j].Tag>>)
              /\ Contains(calls[k].request.Body, warnings[j].Text)

Range(s) == {s[k] : k \in 1..Len(s)}

\* the comments the pull request carries, all pages together
AllComments == UNION {Range(prPages[p]) : p \in 1..Len(prPages)}

\* the comments of the findings that are left after the filter, as rendered
Rendered == [k \in 1..Len(filtered.issues) |-> reviewComment(opts, filtered.issues[k])]

NotOnPullRequest(c) == c \notin AllComments

\* C11: the review Run is about to submit leaves out a filtered finding if and
\* only if the pull request already carries a comment with the same path,
\* position and body, the body being the finding's rendered text.
C11_DedupAgainstExisting ==
    pc = "send" => reviewRequest.Comments = SelectSeq(Rendered, NotOnPullRequest)

\* C12: a second run on the same pull request, head commit, diff and analyzer
\* output, after a first run whose review was submitted, has no comment to
\* submit and the event of the first run.
C12_RerunAddsNothing ==
    pc = "send" /\ previous # <<>> =>
        /\ reviewRequest.Comments = <<>>
        /\ reviewRequest.Event = previous[1].request.Event

\* C13: whatever page of the pull request's comments carries a comment with the
\* path, position and body of a finding, the first or a later one, the review
\* Run is about to submit does not have that finding's comment.
C13_DedupOverAllPages ==
    pc = "send" =>
        \A p \in 1..Len(prPages) : \A k \in 1..Len(Rendered) :
            Rendered[k] \in Range(prPages[p]) =>
                Rendered[k] \notin Range(reviewRequest.Comments)

\* an external call of the run is under way
InFlight ==
    \/ pc \in {"clone", "start", "lint"}
    \/ pc \in {"send", "sendNoChanges"} /\ ~opts.DryRun

IsError(r) == r \notin {"none", "nil"}

\* C17: when the timeout of the run has fired and an external call of the run
\* is in flight (clone, patch download, analyzer, review submission), the call
\* is cancelled and Run ends with an error.
C17_TimeoutCancelsCall ==
    [][ctx = "expired" /\ InFlight => pc' = "done" /\ IsError(ret')]_vars

Ops == [k \in 1..Len(calls) |-> calls[k].op]

IsPrefix(s, u) == Len(s) <= Len(u) /\ SubSeq(u, 1, Len(s)) = s

\* the stages in the order of Run, for a patch with Go code and without
StagesGo ==
    <<"TempDir", "MkdirAll", "clone", "readRepoConfig", "GetRaw", "hasGoCode",
      "runLinter", "filterIssues", "CreateReview">>
StagesNoGo ==
    <<"TempDir", "MkdirAll", "clone", "readRepoConfig", "GetRaw", "hasGoCode",
      "CreateReview">>

\* each stage is run once and in order, and once a stage has failed with the
\* error Run returns, no stage follows it
StagesInOrder ==
    /\ IsPrefix(Ops, StagesGo) \/ IsPrefix(Ops, StagesNoGo)
    /\ IsError(ret) => pc \in {"done", "returned"}
    /\ pc \in {"done", "returned"} => ret # "none"

\* CreateReview is called only after every stage before it succeeded
ReviewAfterSuccess ==
    \A k \in Submitted :
        /\ SubSeq(Ops, 1, k) \in {StagesGo, StagesNoGo}
        /\ Len(Ops) = k
        /\ ret \in {"none", "nil", "unable to create review",
                    "unable to send review: unable to create review"}

\* C18: a stage of Run that fails makes Run return an error at once: Run does
\* not end in any other way, it retries no stage and runs none after the failed
\* one, and CreateReview is called only when every earlier stage succeeded.
C18_FailureAborts ==
    /\ pc \notin {"panic", "crashed"}
    /\ StagesInOrder
    /\ ReviewAfterSuccess

Running == {w \in Workers : workers[w].state = "running"}

\* C14: the select of the webhook handler does not block: when the queue holds
\* QueueSize runners the request is answered 503 at once, its runner is not
\* enqueued, and the runners queued or executing are as they were.
C14_FullQueueRejects ==
    [][\A r \in Requests :
          req[r] = "select" /\ req'[r] = "done" /\ Len(queue) = QueueSize =>
              /\ responses'[r] = "503"
              /\ queue' = queue
              /\ workers' = workers
              /\ runs' = runs]_vars

\* C15: at most one consumer is ever started, however often HttpHandler is
\* called, and at most one Run is executing: the consumer takes the next
\* runner only when the Run before has ended.
C15_OneRunAtATime ==
    /\ Cardinality({w \in Workers : workers[w].state # "none"}) <= 1
    /\ Cardinality(Running) <= 1
    /\ Cardinality({r \in Requests : runs[r] = "running"}) <= 1
    /\ \A w \in Running : runs[workers[w].runner] \in {"running", "panic"}

\* HttpHandler was called twice, one Run has ended, the next is executing and
\* a third runner waits in the queue
C15_Witness ==
    /\ handlerCalls = 2
    /\ \E r \in Requests : runs[r] \in {"nil", "error"}
    /\ \E r \in Requests : runs[r] = "running"
    /\ queue # <<>>

\* C16: no request that tries to enqueue, before or after Close, ends in a
\* panic, and once the queue is closed and the consumer has left its loop no
\* runner is left waiting.
C16_ShutdownNeverPanics ==
    /\ \A r \in Requests : responses[r] # "aborted"
    /\ closed /\ (\A w \in Workers : workers[w].state \in {"none", "exited"}) =>
          \A r \in Requests : runs[r] \notin {"queued", "running"}

\* C20: the webhook request whose runner's Run failed was not answered with
\* a success.
C20_FailedRunAnswered ==
    \A r \in Requests : runs[r] \in {"error", "panic"} => responses[r] # "200"

\* C26: filterIssues is idempotent: applied to its own output against the same
\* diff it returns that list, the same findings in the same order with the same
\* HunkPos.
C26_FilterIdempotent ==
    pc = "refiltered" => ~filtered.panic /\ filtered.issues = issues

\* two findings went through the filter twice, on a diff that adds one line
\* number in two hunks
C26_Witness ==
    /\ pc = "refiltered"
    /\ Len(filtered.issues) = 2
    /\ \E p \in DOMAIN linesChanged(patch).changes :
          LET e == linesChanged(patch).changes[p]
          IN  \E j, k \in 1..Len(e) : j < k /\ e[j].lineNo = e[k].lineNo
                                          /\ e[j].lineNo = filtered.issues[1].Line


\* the last line of the file section that file marker i opens
SectionEnd(d, i) ==
    Min({Len(d) + 1} \cup {j \in (i + 1)..Len(d) : d[j].kind = "file"}) - 1

\* the file markers of the diff whose section adds no line, of files that have
\* one section in the diff
EmptySections(d) ==
    {i \in 1..Len(d) :
        /\ d[i].kind = "file"
        /\ \A j \in 1..Len(d) : d[j].kind = "file" /\ d[j].path = d[i].path => j = i
        /\ \A j \in (i + 1)..SectionEnd(d, i) : d[j].kind # "add"}

Mentioned(d) == {d[i].path : i \in {j \in 1..Len(d) : d[j].kind = "file"}}

\* a file section without added lines is a key with an empty sequence
EmptySectionsPresent ==
    \A i \in EmptySections(diff) :
        /\ diff[i].path \in DOMAIN parsed.changes
        /\ parsed.changes[diff[i].path] = <<>>

\* C23: when linesChanged returns, every file that has a section with a
\* '+++ ' marker and no added lines (no hunks, or hunks of deletions and context
\* only; first, middle or last section) is a key of the mapping with an empty
\* sequence, and a file the diff never mentions is not a key.
C23_EmptySectionIsKey ==
    pc = "parsed" /\ ~parsed.panic =>
        /\ EmptySectionsPresent
        /\ DOMAIN parsed.changes \subseteq Mentioned(diff)


MalformedHeader(d) == \E i \in 1..Len(d) : d[i].kind = "badhunk"

\* C22: a hunk header whose new-range start is not a number, or is missing,
\* makes the parse fail with an error value: filterIssues returns, Run returns
\* an error and no review is submitted.
C22_MalformedHeaderIsError ==
    MalformedHeader(diff) /\ Called("filterIssues") =>
        /\ pc \notin {"panic", "crashed"}
        /\ ~filtered.panic
        /\ IsError(ret)
        /\ ~Called("CreateReview")


\* C24: in a review that is not passing with N > 0 remaining findings the body
\* states N and the review has exactly N comments, one per remaining finding in
\* the order of the findings.
C24_BodyCountsComments ==
    Evaluated /\ Len(filtered.issues) > 0 =>
        LET n == Len(filtered.issues)
            c == reviewRequest.Comments
        IN  /\ reviewRequest.Body = <<"golangci-lint found ">> \o Itoa(n) \o <<" issues">>
            /\ Len(c) = n
            /\ \A k \in 1..n :
                  /\ c[k].Path = filtered.issues[k].FilePath
                  /\ c[k].Position = filtered.issues[k].HunkPos
                  /\ Contains(c[k].Body, filtered.issues[k].Text)
            /\ \A k \in Submitted : calls[k].request = reviewRequest

\* a review with two findings of two analyzers was submitted
C24_Witness ==
    /\ pc = "returned"
    /\ Evaluated
    /\ Submitted # {}
    /\ Len(filtered.issues) = 2
    /\ filtered.issues[1].FromLinter # filtered.issues[2].FromLinter
    /\ Len(reviewRequest.Comments) = 2

\* C25: a passing review has the configured 'no issues' text as body when the
\* analyzer reported nothing and the configured 'no new issues' text when it
\* reported findings of which none remained; with no findings, no warnings and
\* Approve the review is APPROVE with the 'no issues' text.
C25_PassingBodyText ==
    Evaluated /\ Passing =>
        reviewRequest.Body = IF issues = <<>> THEN noIssuesTextFlag
                             ELSE noNewIssuesTextFlag

\* C27: with DryRun no path through Run calls CreateReview, and sendReview
\* returns success: a run that got to sendReview returns nil and the comments
\* of the pull request are as they were.
C27_DryRunSendsNothing ==
    opts.DryRun =>
        /\ ~Called("CreateReview")
        /\ prPages = <<>>
        /\ pc \in {"done", "returned"} /\ reviewRequest.Event # "" => ret = "nil"

\* a dry run on a diff with findings got through sendReview
C27_Witness ==
    /\ opts.DryRun
    /\ pc = "returned"
    /\ Len(reviewRequest.Comments) > 0
    /\ reviewRequest.Event = "REQUEST_CHANGES"
    /\ ret = "nil"

\* the terminal states of Run the specification names
Suppressed == ret = "nil" /\ Submitted = {}
SubmittedOk == ret = "nil" /\ Submitted # {}
Error == IsError(ret)

\* C30: Run ends in exactly one of Suppressed, Submitted and Error, and calls
\* CreateReview at most once.
C30_OneTerminalState ==
    /\ Cardinality(Submitted) <= 1
    /\ pc \in {"returned", "crashed"} =>
          \/ Suppressed /\ ~SubmittedOk /\ ~Error
          \/ SubmittedOk /\ ~Suppressed /\ ~Error
          \/ Error /\ ~Suppressed /\ ~SubmittedOk


\* the settings of the file put over a configuration: a setting the file
\* gives replaces the one that is there, a list included
merge(base, file) ==
    [Config |-> base.Config,
     Algo |-> IF file.Algo = <<>> THEN base.Algo ELSE file.Algo[1],
     Enable |-> IF file.Enable = <<>> THEN base.Enable ELSE file.Enable[1]]

DefaultValue == ConfigValue(DefaultHeap, DefaultConfig)

\* C21: no run changes what it shares with the server or with another run:
\* after any sequence of runs, runs that read a repository config file
\* included, the LinterConfig of the server is what it was, and a runner
\* starts from the defaults.
C21_DefaultsUnchanged ==
    /\ ConfigValue(heap, defaults) = DefaultValue
    /\ pc = "config" => ConfigValue(heap, linterConfig) = DefaultValue

\* C28: with no config file at the configured path readRepoConfig returns nil
\* and the LinterConfig of the runner is the configuration it was given.
C28_NoFileKeepsConfig ==
    pc = "configured" /\ repoConfig.state = "absent" =>
        /\ configRet = "nil"
        /\ linterConfig = defaults
        /\ ConfigValue(heap, linterConfig) = ConfigValue(heap, defaults)
        /\ configRuns = 0 => ConfigValue(heap, linterConfig) = DefaultValue

\* a run in a repository without a config file, after a run in one with a file
C28_Witness ==
    /\ pc = "configured"
    /\ repoConfig.state = "absent"
    /\ configRuns > 0
    /\ Len(heap) > 1
    /\ configRet = "nil"

\* C29: with a config file in the repository readRepoConfig returns nil and
\* the LinterConfig is the default configuration with every setting of the file
\* in place of the default's (a list is replaced, not joined with the
\* default's) and every other setting as in the default.
C29_FileOverridesDefaults ==
    pc = "configured" /\ repoConfig.state = "valid" /\ configRuns = 0 =>
        /\ configRet = "nil"
        /\ ConfigValue(heap, linterConfig) = merge(DefaultValue, repoConfig)


\* the lines of the patch that linesChanged takes for a new-file marker
Markers(lines) ==
    {i \in 1..Len(lines) : HasPrefix(lines[i], <<"+", "+", "+", " ">>) /\ Len(lines[i]) > 4}

\* the last line before the next marker after marker i
MarkerSectionEnd(lines, i) ==
    Min({Len(lines) + 1} \cup {j \in Markers(lines) : j > i}) - 1

\* the added lines between marker i and the next marker
SectionAdds(d, lines, i) ==
    {j \in (i + 1)..MarkerSectionEnd(lines, i) : d[j].kind = "add"}

\* C31: at each new-file marker linesChanged restarts the position counter at
\* -1: the line after the marker has position 0, and the positions recorded
\* for a file are those of the added lines of its own section counted from the
\* section's marker, whatever comes before the section in the diff.
C31_PositionRestartsAtMarker ==
    pc = "parsed" /\ ~parsed.panic =>
        \A i \in Markers(patch) :
            LET p == SliceFrom(patch[i], 6)
                A == SectionAdds(diff, patch, i)
            IN  (\A j \in Markers(patch) : SliceFrom(patch[j], 6) = p => j <= i) =>
                    /\ p \in DOMAIN parsed.changes
                    /\ Len(parsed.changes[p]) = Cardinality(A)
                    /\ \A j \in A :
                          parsed.changes[p][Cardinality({a \in A : a <= j})].hunkPos
                              = j - i - 1

\* the second section of a diff, after a first section with an added line,
\* has its added line recorded at the position counted from its own marker
C31_Witness ==
    /\ pc = "parsed"
    /\ ~parsed.panic
    /\ Len(diff) = 5
    /\ diff[1] = FileLine(FileF)
    /\ diff[2].kind = "add"
    /\ diff[3] = FileLine(FileG)
    /\ diff[5].kind = "add"
    /\ FileG \in DOMAIN parsed.changes
    /\ parsed.changes[FileG][Len(parsed.changes[FileG])].hunkPos = 1


\* C32: at end of input linesChanged commits an entry only if a file section
\* was open: a text without a new-file marker line, the empty text included,
\* gives a mapping without keys, and every key of a returned mapping is the
\* path of a file section of the diff.
C32_KeysAreFileSections ==
    pc = "parsed" /\ ~parsed.panic =>
        /\ Markers(patch) = {} => DOMAIN parsed.changes = {}
        /\ DOMAIN parsed.changes \subseteq Mentioned(diff)

\* C33: linesChanged gets through every line without a run-time failure, and
\* each line that starts with '+++ ' and is longer than 4 characters, a line
\* of exactly 5 characters included, opens a section whose path is the line
\* without its first 6 characters.
C33_NoRuntimeFailure ==
    pc = "parsed" =>
        /\ ~parsed.panic
        /\ \A i \in Markers(patch) :
              Len(patch[i]) >= 6 /\ SliceFrom(patch[i], 6) \in DOMAIN parsed.changes


\* C34: the body of each comment is the text of its finding followed by
\* " (from <linter>)" exactly when PrintLinterName is set, and the text as it
\* is otherwise; the suffix is there once.
C34_LinterNameSuffix ==
    Evaluated =>
        /\ Len(reviewRequest.Comments) = Len(filtered.issues)
        /\ \A k \in 1..Len(reviewRequest.Comments) :
              reviewRequest.Comments[k].Body =
                  IF opts.PrintLinterName
                  THEN filtered.issues[k].Text
                           \o <<" (from ", filtered.issues[k].FromLinter, ")">>
                  ELSE filtered.issues[k].Text

\* a submitted review with the comments of two analyzers, each named once
C34_Witness ==
    /\ pc = "returned"
    /\ opts.PrintLinterName
    /\ \E k \in Submitted :
          LET c == calls[k].request.Comments
          IN  /\ Len(c) = 2
              /\ c[1].Body = <<"unused var", " (from ", "unused", ")">>
              /\ c[2].Body = <<"shadow", " (from ", "govet", ")">>

\* a submitted review of a run without the option, the texts as they were
C34_WitnessPlain ==
    /\ pc = "returned"
    /\ ~opts.PrintLinterName
    /\ \E k \in Submitted :
          /\ Len(calls[k].request.Comments) = 1
          /\ calls[k].request.Comments[1].Body = <<"shadow">>

\* C39: no submitted review has two comments with the same path, position
\* and body: of findings that render to the same triple only the first is
\* attached, and each distinct triple of the findings is attached once.
C39_NoDuplicateComments ==
    \A k \in Submitted :
        LET c == calls[k].request.Comments
        IN  /\ \A a, b \in 1..Len(c) : c[a] = c[b] => a = b
            /\ pc # "sendNoChanges" /\ Called("filterIssues") =>
                  {c[a] : a \in 1..Len(c)} =
                      {[Path |-> f.FilePath, Position |-> f.HunkPos,
                        Body |-> IF opts.PrintLinterName
                                 THEN f.Text \o <<" (from ", f.FromLinter, ")">>
                                 ELSE f.Text] : f \in Range(filtered.issues)}


\* the runs accepted with 200 that have not ended
Accepted == {r \in Requests : responses[r] = "200" /\ runs[r] \in {"queued", "running"}}

\* C35: in every state at most QueueSize runners wait in the queue, and at
\* most QueueSize + 1 runs accepted with a 200 have not ended: the waiting ones
\* and one that is executing.
C35_LoadBoundedByQueue ==
    /\ Len(queue) <= QueueSize
    /\ Cardinality(Accepted) <= QueueSize + 1
    /\ Cardinality(Accepted) = Len(queue) + Cardinality({r \in Requests : runs[r] = "running"})

\* the queue is full while a Run is executing, and a request was turned away
C35_Witness ==
    /\ Len(queue) = QueueSize
    /\ Cardinality(Accepted) = QueueSize + 1
    /\ \E r \in Requests : responses[r] = "503"


\* C36: every runner that was enqueued is executed in the end, in the order of
\* enqueueing, when every Run ends: a Run that returns an error, or whose diff
\* cannot be parsed, does not keep the consumer from the runners queued after
\* it.
C36_EnqueuedIsExecuted ==
    /\ \A r \in Requests : (runs[r] = "queued") ~> (runs[r] # "queued")
    /\ [][\A r \in Requests :
            runs[r] = "queued" /\ runs'[r] = "running" => r = Head(queue)]_vars


\* a pull request event that is to start a run
StartsRun(e) ==
    /\ e.valid
    /\ e.type = "pull_request"
    /\ e.action \in {"opened", "reopened", "synchronize"}

\* C37: in app mode as the command wires it, a correctly signed pull_request
\* event with action opened, reopened or synchronize, with its pull request and
\* installation and with an installation token issued, is answered 200 and has
\* one runner enqueued when the queue has room (503 is the answer of a full
\* queue).
C37_AppModeEnqueues ==
    srvOptions = mainOptions =>
        \A r \in Requests :
            StartsRun(events[r]) /\ events[r].complete /\ events[r].token =>
                /\ req[r] = "done" => responses[r] \in {"200", "503"}
                /\ responses[r] = "200" => runs[r] # "none"

\* C38: a runner is enqueued only for a request whose payload is valid and
\* that is a pull_request event with action opened, reopened or synchronize;
\* an invalid payload gets 400, a ping, an installation event and a
\* pull_request event with another action get 200, any other event type gets
\* 400, and none of them enqueues anything.
C38_OnlyPullRequestsEnqueue ==
    \A r \in Requests :
        LET e == events[r]
        IN  /\ runs[r] # "none" => StartsRun(e)
            /\ req[r] = "done" /\ ~StartsRun(e) =>
                  /\ runs[r] = "none"
                  /\ responses[r] =
                        IF ~e.valid THEN "400"
                        ELSE IF e.type \in {"ping", "installation"} THEN "200"
                        ELSE IF e.type = "pull_request" THEN "200"
                        ELSE "400"

\* requests with an invalid payload, with a closed pull request and with a
\* reopened one have been answered, and only the last has a runner
C38_Witness ==
    \E a, b, c \in Requests :
        /\ ~events[a].valid /\ responses[a] = "400" /\ runs[a] = "none"
        /\ events[b].action = "closed" /\ responses[b] = "200" /\ runs[b] = "none"
        /\ events[c].action = "reopened" /\ responses[c] = "200" /\ runs[c] # "none"

=============================================================================
